---- MODULE Spec2Model ----
(***************************************************************************)
(* Model of the adaptive retrieval engine of google-search-mcp             *)
(* (src/src/search.ts): googleSearch and its inner performSearch, the      *)
(* session-state files they read and write, and the browsers, contexts     *)
(* and pages they open and close.                                          *)
(*                                                                         *)
(* Strings that the code searches with includes()/replace() are modelled   *)
(* as sequences of tokens, cut so that every pattern of the code and every *)
(* URL of the model is a whole number of tokens; includes() is then the    *)
(* contiguous-subsequence test.                                            *)
(***************************************************************************)
EXTENDS Integers, Sequences, FiniteSets, TLC

\* ------------------------------------------------------------------ bounds
MaxCalls == 2          \* googleSearch calls made one after the other
MaxAttempts == 3       \* cap on performSearch executions per call (the code has none)
MaxPathLen == 3        \* tokens of a state-file path
MaxElements == 2       \* elements a selector matches on a page
MaxLimit == 2          \* largest limit option
MaxOffsetHours == 12   \* largest distance of the host from UTC, in hours

\* ------------------------------------------------------------- JS values
\* undefined, once for each type of value the code leaves undefined
Undefined == "undefined"                    \* an undefined string
NoFingerprint == [undefined |-> TRUE]       \* savedState.fingerprint
NoDomain == << >>                           \* savedState.googleDomain
NoPath == << >>                             \* storageState
NoUrl == << >>                              \* a null response of page.goto
NoOptions == [undefined |-> TRUE]           \* no context options built yet
NoResponse == [undefined |-> TRUE]          \* no SearchResponse yet
NoError == [kind |-> "none", message |-> ""]

\* ---------------------------------------------------------- token strings
\* s.includes(p)
Includes(s, p) ==
    \E i \in 0..(Len(s) - Len(p)) :
        \A j \in 1..Len(p) : s[i + j] = p[j]

\* s.replace(p, r): replaces the FIRST occurrence of p only
FirstIndex(s, p) ==
    IF Includes(s, p)
    THEN CHOOSE i \in 0..(Len(s) - Len(p)) :
            /\ \A j \in 1..Len(p) : s[i + j] = p[j]
            /\ \A k \in 0..(i - 1) : \E j \in 1..Len(p) : s[k + j] # p[j]
    ELSE -1

Replace(s, p, r) ==
    IF FirstIndex(s, p) = -1
    THEN s
    ELSE SubSeq(s, 1, FirstIndex(s, p)) \o r
         \o SubSeq(s, FirstIndex(s, p) + Len(p) + 1, Len(s))

\* ------------------------------------------------------- fixed constants
\* googleDomains
googleDomains ==
    << <<"https://", "www.", "google", ".co", "m">>,
       <<"https://", "www.", "google", ".co", ".uk">>,
       <<"https://", "www.", "google", ".ca">>,
       <<"https://", "www.", "google", ".co", "m", ".au">>,
       <<"https://", "www.", "google", ".hu">> >>

\* sorryPatterns
sorryPatterns ==
    << <<"google", ".co", "m", "/", "sorry", "/", "index">>,
       <<"google", ".co", "m", "/", "sorry">>,
       <<"re", "captcha">>,
       <<"captcha">>,
       <<"unusual traffic">> >>

NoDevice == [undefined |-> TRUE]            \* devices[name] of an unknown name

\* deviceList
deviceList ==
    <<"Desktop Chrome", "Desktop Edge", "Desktop Firefox", "Desktop Safari">>

\* playwright's devices[name] for the desktop descriptors the code can name
devices(name) ==
    IF \E i \in 1..Len(deviceList) : deviceList[i] = name
    THEN [deviceName |-> name, isMobile |-> FALSE, hasTouch |-> FALSE]
    ELSE IF name = "iPhone 13"
    THEN [deviceName |-> name, isMobile |-> TRUE, hasTouch |-> TRUE]
    ELSE NoDevice

Range(s) == {s[i] : i \in 1..Len(s)}

\* ------------------------------------------------------------ input sets
Queries == {"openai", "tla"}
LocaleHints == {"en-US"}
Limits == {2}

\* host signals read by getHostMachineConfig
Hosts ==
    { [timezoneOffset |-> 0, hour |-> 20, LANG |-> "en_GB.UTF-8", platform |-> "linux"] }

\* stateFile option values; the default is "./browser-state.json"
StateFiles == { <<"./browser-state", ".json">> }

\* ------------------------------------------------------------ fingerprint
\* getHostMachineConfig: timezone from the offset
TimezoneOf(timezoneOffset) ==
    IF timezoneOffset <= -480 /\ timezoneOffset > -600 THEN "Asia/Shanghai"
    ELSE IF timezoneOffset <= -540 THEN "Asia/Tokyo"
    ELSE IF timezoneOffset <= -420 /\ timezoneOffset > -480 THEN "Asia/Bangkok"
    ELSE IF timezoneOffset <= 0 /\ timezoneOffset > -60 THEN "Europe/London"
    ELSE IF timezoneOffset <= 60 /\ timezoneOffset > 0 THEN "Europe/Berlin"
    ELSE IF timezoneOffset <= 180 /\ timezoneOffset > 60 THEN "Europe/Budapest"
    ELSE IF timezoneOffset <= 300 /\ timezoneOffset > 240 THEN "America/New_York"
    ELSE "Asia/Shanghai"

\* a JS value is truthy unless undefined, null or ""
Truthy(v) == v # Undefined /\ v # ""

\* the browser chosen from os.platform()
PlatformDevice(platform) ==
    IF platform = "darwin" THEN "Desktop Safari"
    ELSE IF platform = "win32" THEN "Desktop Edge"
    ELSE IF platform = "linux" THEN "Desktop Firefox"
    ELSE "Desktop Chrome"

\* variant: the browser chosen from the platform is kept
HostDeviceByPlatform(byPlatform) == byPlatform

\* deviceName = "Desktop Chrome", assigned after the choice by platform
HostDevice(byPlatform) == "Desktop Chrome"

getHostMachineConfig(hs, userLocale) ==
    [ deviceName    |-> HostDevice(PlatformDevice(hs.platform)),
      locale        |-> IF Truthy(userLocale) THEN userLocale
                        ELSE IF Truthy(hs.LANG) THEN hs.LANG ELSE "zh-CN",
      timezoneId    |-> TimezoneOf(hs.timezoneOffset),
      colorScheme   |-> IF hs.hour >= 19 \/ hs.hour < 7 THEN "dark" ELSE "light",
      reducedMotion |-> "no-preference",
      forcedColors  |-> "none" ]


\* ------------------------------------------------------------- file system
Absent == << <<"absent">> >>

\* const fingerprintFile = stateFile.replace(".json", "-fingerprint.json")
FingerprintFile(stateFile) ==
    Replace(stateFile, <<".json">>, <<"-fingerprint", ".json">>)

Paths == UNION { {sf, FingerprintFile(sf)} : sf \in StateFiles }

\* JSON text is modelled as the sequence of its top-level "key": value members
\* variant: only the fingerprint is serialised
JSONstringifyFingerprintOnly(obj) ==
    IF obj.fingerprint # NoFingerprint
    THEN << <<"fingerprint", obj.fingerprint>> >> ELSE << >>

\* JSON.stringify(savedState, null, 2): members whose value is undefined are left out
JSONstringify(obj) ==
    (IF obj.fingerprint # NoFingerprint
     THEN << <<"fingerprint", obj.fingerprint>> >> ELSE << >>)
    \o
    (IF obj.googleDomain # NoDomain
     THEN << <<"googleDomain", obj.googleDomain>> >> ELSE << >>)

\* member lookup in parsed JSON: the last member with that key, else undefined
Member(text, key, undef) ==
    IF \E i \in 1..Len(text) : text[i][1] = key
    THEN text[CHOOSE i \in 1..Len(text) :
                 /\ text[i][1] = key
                 /\ \A j \in (i + 1)..Len(text) : text[j][1] # key][2]
    ELSE undef

\* file contents that are not the JSON of an object: text that JSON.parse
\* rejects, and the text null
Unparsable == << <<"unparsable">> >>
JSONnull == << <<"null">> >>

\* the value null
Null == [null |-> TRUE]

\* savedState = JSON.parse(fingerprintData), read through the SavedState
\* interface; the text null parses to null
JSONparse(text) ==
    IF text = JSONnull THEN Null
    ELSE [ fingerprint  |-> Member(text, "fingerprint", NoFingerprint),
           googleDomain |-> Member(text, "googleDomain", NoDomain) ]

\* what context.storageState({ path }) writes: the cookies and origins of the session
StorageBlob == << <<"cookies", "session">>, <<"origins", "session">> >>

\* fs.existsSync(path)
existsSync(f, path) == f.files[path] # Absent

\* ------------------------------------------------------------------ state
VARIABLES
    fs,               \* [dir: does path.dirname(stateFile) exist, files: path -> content]
    host,             \* host signals of the machine
    callerBrowser,    \* "open" / "closed": the browser a caller may pass as existingBrowser
    callsDone,        \* number of googleSearch calls started so far
    query,            \* googleSearch argument
    options,          \* googleSearch argument, defaults applied
    existingBrowser,  \* TRUE iff the caller passed a browser
    storageState,     \* stateFile, or undefined
    savedState,       \* [fingerprint, googleDomain], shared by all attempts of the call
    pc,               \* position of the call
    headless,         \* parameter of the running performSearch
    browser,          \* 0 = the caller's browser, i > 0 = launched[i]
    context,          \* index in contexts of the running attempt's context, 0 = none yet
    contextOptions,   \* options the attempt's context is created with
    launched,         \* browsers launched by the engine in this call
    contexts,         \* contexts created in this call
    pageUrl,          \* page.url()
    responseUrl,      \* response.url() of page.goto, or null
    results,          \* extracted results
    error,            \* the error caught or thrown
    outcome,          \* "pending" / "returned" / "thrown"
    response,         \* SearchResponse returned, or undefined
    hist,             \* history of the call, kept for the properties
    probe             \* a function of the engine applied on its own: argument and value

vars == << fs, host, callerBrowser, callsDone, query, options, existingBrowser,
           storageState, savedState, pc, headless, browser, context,
           contextOptions, launched, contexts, pageUrl, responseUrl,
           results, error, outcome, response, hist, probe >>

\* no call has written a sidecar yet
NothingPersisted == [undefined |-> TRUE]

\* history record at the start of a call
NewHistory(f, sf) ==
    [ fsAtStart     |-> f,
      persisted     |-> NothingPersisted,   \* saved state last written by an earlier call
      pinnedAtStart |-> IF f.files[FingerprintFile(sf)] = Absent THEN NoDomain
                        ELSE Member(f.files[FingerprintFile(sf)], "googleDomain", NoDomain),
      corruptAtStart |-> \/ f.files[sf] = Unparsable
                         \/ f.files[sf] # Absent
                              /\ f.files[FingerprintFile(sf)] \in {Unparsable, JSONnull},
      attempts      |-> 0,        \* executions of performSearch
      firstMode     |-> TRUE,     \* headless parameter of the first execution
      escalations   |-> 0,        \* re-executions started from a checkpoint
      navigations   |-> << >>,    \* domains page.goto was called with
      randomPicks   |-> 0,        \* random choices of a domain
      onCaller      |-> 0,        \* contexts created on the caller's browser after an escalation
      waited        |-> 0,        \* waits for the page to leave the blocked URLs
      waitBegun     |-> FALSE,    \* the running execution began the wait for result elements
      checked3      |-> FALSE,    \* the running execution evaluated the third check
      sidecarWrites |-> << >>,    \* saved states written to the sidecar
      blobWrites    |-> 0,        \* low-level session saves that succeeded
      savedClosed   |-> FALSE,    \* storageState was invoked on a closed context
      ioFault       |-> "none",   \* persistence step that the environment made fail
      extracted     |-> FALSE,    \* extraction completed
      ending        |-> "none" ]  \* "success" / "failure": how the last attempt ended

\* no function is applied on its own
NoProbe == [fn |-> "none"]

\* no call is running
Idle ==
    /\ host \in Hosts
    /\ callerBrowser = "open"
    /\ query = ""
    /\ options = [stateFile |-> CHOOSE sf \in StateFiles : TRUE]
    /\ existingBrowser = FALSE
    /\ storageState = NoPath
    /\ savedState = [fingerprint |-> NoFingerprint, googleDomain |-> NoDomain]
    /\ pc = "idle"
    /\ headless = TRUE
    /\ browser = 0
    /\ context = 0
    /\ contextOptions = NoOptions
    /\ launched = << >>
    /\ contexts = << >>
    /\ pageUrl = NoUrl
    /\ responseUrl = NoUrl
    /\ results = << >>
    /\ error = NoError
    /\ outcome = "pending"
    /\ response = NoResponse
    /\ hist = NewHistory(fs, options.stateFile)

\* no call is running and none was made
NoCall ==
    /\ callsDone = 0
    /\ Idle

\* before the first call: no state file, no sidecar
Init ==
    /\ fs \in { [dir |-> d, files |-> [p \in Paths |-> Absent]] : d \in BOOLEAN }
    /\ NoCall
    /\ probe = NoProbe

\* ---------------------------------------------------------- googleSearch
\* an option the caller left out is a missing field of the options object
Has(o, k) == k \in DOMAIN o

\* option defaults of googleSearch
WithDefaults(o) ==
    [ limit       |-> IF Has(o, "limit") THEN o.limit ELSE 10,
      noSaveState |-> IF Has(o, "noSaveState") THEN o.noSaveState ELSE FALSE,
      locale      |-> IF Has(o, "locale") THEN o.locale ELSE "hu-HU",
      headless    |-> IF Has(o, "headless") THEN o.headless ELSE TRUE,
      stateFile   |-> o.stateFile ]

\* the options objects callers pass
CallOptions ==
    LET full == [ limit : Limits, noSaveState : {TRUE}, locale : LocaleHints,
                  headless : {FALSE}, stateFile : StateFiles ]
        keys == { {"limit", "stateFile"} \cup K :
                      K \in SUBSET {"noSaveState", "locale", "headless"} }
    IN  { [k \in K |-> f[k]] : f \in full, K \in keys }

\* loading of the saved state: the sidecar is read only when the state file exists
\* and exists too; an error of JSON.parse is caught and leaves the empty state
LoadSavedState(f, stateFile) ==
    IF /\ existsSync(f, stateFile)
       /\ existsSync(f, FingerprintFile(stateFile))
       /\ f.files[FingerprintFile(stateFile)] # Unparsable
    THEN JSONparse(f.files[FingerprintFile(stateFile)])
    ELSE [fingerprint |-> NoFingerprint, googleDomain |-> NoDomain]

\* googleSearch up to the first call of performSearch
StartSearch ==
    /\ pc = "idle"
    /\ callsDone < MaxCalls
    /\ \E q \in Queries, o \in CallOptions, eb \in BOOLEAN :
         /\ query' = q
         /\ options' = WithDefaults(o)
         /\ existingBrowser' = eb
         /\ storageState' = IF existsSync(fs, o.stateFile) THEN o.stateFile ELSE NoPath
         /\ savedState' = LoadSavedState(fs, o.stateFile)
         /\ headless' = WithDefaults(o).headless
         /\ hist' = [NewHistory(fs, o.stateFile) EXCEPT !.persisted = hist.persisted]
    /\ callsDone' = callsDone + 1
    /\ pc' = "launch"
    /\ browser' = 0
    /\ context' = 0
    /\ contextOptions' = NoOptions
    /\ launched' = << >>
    /\ contexts' = << >>
    /\ pageUrl' = NoUrl
    /\ responseUrl' = NoUrl
    /\ results' = << >>
    /\ error' = NoError
    /\ outcome' = "pending"
    /\ response' = NoResponse
    /\ UNCHANGED << fs, host, probe, callerBrowser >>


\* --------------------------------------------------------- performSearch
\* getDeviceConfig: the saved device when it is a known one, else a random one
getDeviceConfig(ss, randomDevice) ==
    IF /\ ss.fingerprint # NoFingerprint
       /\ Truthy(ss.fingerprint.deviceName)
       /\ devices(ss.fingerprint.deviceName) # NoDevice
    THEN <<ss.fingerprint.deviceName, devices(ss.fingerprint.deviceName)>>
    ELSE <<randomDevice, devices(randomDevice)>>

\* variant: every execution synthesizes the fingerprint anew
ActiveFingerprintOfHost(ss, hs, locale) == getHostMachineConfig(hs, locale)

\* the fingerprint the attempt applies: the saved one, else the host's
ActiveFingerprint(ss, hs, locale) ==
    IF ss.fingerprint # NoFingerprint THEN ss.fingerprint
    ELSE getHostMachineConfig(hs, locale)

\* variant: mobile and touch as the device descriptor has them
CommonOptionsOfDevice(deviceConfig) ==
    [isMobile |-> deviceConfig.isMobile, hasTouch |-> deviceConfig.hasTouch]

\* the common options spread over the descriptor: isMobile: false, hasTouch: false
CommonOptions(deviceConfig) == [isMobile |-> FALSE, hasTouch |-> FALSE]

\* contextOptions as built before browser.newContext
BuildContextOptions(ss, hs, locale, randomDevice) ==
    LET dc == getDeviceConfig(ss, randomDevice)
        fp == ActiveFingerprint(ss, hs, locale)
        deviceConfig ==
            IF ss.fingerprint = NoFingerprint /\ fp.deviceName # dc[1]
            THEN devices(fp.deviceName)
            ELSE dc[2]
    IN  [ device        |-> deviceConfig.deviceName,
          locale        |-> fp.locale,
          timezoneId    |-> fp.timezoneId,
          colorScheme   |-> fp.colorScheme,
          reducedMotion |-> fp.reducedMotion,
          forcedColors  |-> fp.forcedColors,
          isMobile      |-> CommonOptions(deviceConfig).isMobile,
          hasTouch      |-> CommonOptions(deviceConfig).hasTouch ]

Thrown(kind, message) ==
    /\ error' = [kind |-> kind, message |-> message]
    /\ outcome' = "thrown"
    /\ response' = NoResponse
    /\ pc' = "settled"

Caught(kind, message) ==
    /\ error' = [kind |-> kind, message |-> message]
    /\ pc' = "catch"

BrowserOpen(b) ==
    IF b = 0 THEN callerBrowser = "open" ELSE launched[b].open

\* performSearch from its entry to browser.newContext: the browser to use
\* (the caller's whenever one was passed, else a newly launched one) and the
\* context options; a failed launch rejects the call, and so does
\* getDeviceConfig when savedState is null (savedState.fingerprint then is a
\* property read of null)
Launch ==
    /\ pc = "launch"
    /\ hist.attempts < MaxAttempts
    /\ hist' = [hist EXCEPT !.attempts = @ + 1,
                            !.firstMode = IF hist.attempts = 0 THEN headless ELSE @]
    /\ \E launchOk \in BOOLEAN, randomDevice \in Range(deviceList) :
         IF existingBrowser \/ launchOk
         THEN /\ IF existingBrowser
                 THEN /\ browser' = 0
                      /\ launched' = launched
                 ELSE /\ launched' = Append(launched, [headless |-> headless, open |-> TRUE])
                      /\ browser' = Len(launched) + 1
              /\ IF savedState = Null
                 THEN /\ Thrown("SavedStateTypeError",
                                "Cannot read properties of null (reading 'fingerprint')")
                      /\ UNCHANGED << contextOptions, savedState >>
                 ELSE /\ contextOptions' =
                            BuildContextOptions(savedState, host, options.locale,
                                                randomDevice)
                      /\ savedState' =
                            [savedState EXCEPT !.fingerprint =
                                 ActiveFingerprint(savedState, host, options.locale)]
                      /\ pc' = "newContext"
                      /\ UNCHANGED << error, outcome, response >>
         ELSE /\ Thrown("LaunchFailure", "browserType.launch: Failed to launch")
              /\ UNCHANGED << browser, launched, contextOptions, savedState >>
    /\ context' = 0
    /\ UNCHANGED << fs, host, probe, callerBrowser, callsDone, query, options,
                    existingBrowser, storageState, headless, contexts,
                    pageUrl, responseUrl, results >>

\* the state file handed to browser.newContext cannot be read as JSON
StorageStateUnreadable ==
    storageState # NoPath /\ fs.files[storageState] \in {Absent, Unparsable}

\* browser.newContext (which reads and parses the state file when
\* storageState is set), the init scripts and context.newPage; they run
\* before the try block, so a failure rejects the call
NewContext ==
    /\ pc = "newContext"
    /\ \E r \in {"ok", "contextFails", "pageFails"} :
         /\ r = "ok" => BrowserOpen(browser)
         /\ StorageStateUnreadable => r = "contextFails"
         /\ IF r = "contextFails"
            THEN UNCHANGED << contexts, context, hist >>
            ELSE /\ contexts' = Append(contexts,
                        [browser |-> browser, open |-> TRUE, options |-> contextOptions])
                 /\ context' = Len(contexts) + 1
                 /\ hist' = [hist EXCEPT !.onCaller =
                                IF browser = 0 /\ hist.escalations > 0 THEN @ + 1 ELSE @]
         /\ IF r = "ok"
            THEN /\ pc' = "goto"
                 /\ UNCHANGED << error, outcome, response >>
            ELSE IF StorageStateUnreadable
                 THEN Thrown("StorageStateUnreadable",
                             "browser.newContext: Error reading storage state")
                 ELSE Thrown("ContextFailure", "browser.newContext: Failed")
    /\ UNCHANGED << fs, host, probe, callerBrowser, callsDone, query, options,
                    existingBrowser, storageState, savedState, headless, browser,
                    contextOptions, launched, pageUrl, responseUrl, results >>

\* URLs the provider can answer with
HomeUrl(d) == d \o <<"/">>
SearchUrl(d) == d \o <<"/", "search", "?">>
SorryUrl(d) == d \o <<"/", "sorry", "/", "index", "?">>
PageUrls(d) == {HomeUrl(d), SearchUrl(d), SorryUrl(d), SorryUrl(googleDomains[1])}

\* sorryPatterns.some(pattern => url.includes(pattern))
isBlocked(url) ==
    \E i \in 1..Len(sorryPatterns) : Includes(url, sorryPatterns[i])

\* variant: every checkpoint looks at the page URL only
BlockedAtPageOnly(k, url, resp) == isBlocked(url)

\* the check of checkpoint k: the first looks at the page URL and at the URL
\* of the response of page.goto when there is one, the second and the third
\* at the page URL only
BlockedAt(k, url, resp) ==
    IF k = 1
    THEN isBlocked(url) \/ (resp # NoUrl /\ isBlocked(resp))
    ELSE isBlocked(url)

\* variant: the random pick, whatever is saved
SelectDomainAtRandom(ss, pick) == pick

\* the saved domain, else the random pick
SelectDomain(ss, pick) ==
    IF ss.googleDomain # NoDomain THEN ss.googleDomain ELSE pick

\* domain selection and page.goto
Navigate ==
    /\ pc = "goto"
    /\ \E pick \in Range(googleDomains) :
         LET domain == SelectDomain(savedState, pick)
         IN  /\ savedState' = [savedState EXCEPT !.googleDomain = domain]
             /\ hist' = [hist EXCEPT
                     !.navigations = Append(@, domain),
                     !.randomPicks =
                         IF savedState.googleDomain # NoDomain THEN @ ELSE @ + 1]
             /\ \/ /\ Caught("NavigationTimeout", "page.goto: Timeout exceeded")
                   /\ UNCHANGED << pageUrl, responseUrl >>
                \/ /\ pageUrl' \in {HomeUrl(domain), SorryUrl(domain),
                                     SorryUrl(googleDomains[1])}
                   /\ responseUrl' \in {NoUrl, pageUrl'} \cup {SorryUrl(domain)}
                   /\ pc' = "checkpoint1"
                   /\ error' = error
    /\ UNCHANGED << fs, host, probe, callerBrowser, callsDone, query, options,
                    existingBrowser, storageState, headless, browser, context,
                    contextOptions, launched, contexts, results, outcome, response >>


\* the domain the attempt navigated to
selectedDomain == savedState.googleDomain

\* variant: the re-execution keeps the mode of the running execution
ReexecuteSameMode == headless

\* the argument of the re-execution, performSearch(false)
ReexecuteMode == FALSE

\* the history once the checkpoint the call stands at has evaluated its check
Checked == [hist EXCEPT !.checked3 = @ \/ pc = "checkpoint3"]

\* return performSearch(false): the promise of the new execution is returned
\* without await, so nothing of the running execution runs after it
Reexecute ==
    /\ headless' = ReexecuteMode
    /\ pc' = "launch"
    /\ error' = error
    /\ hist' = [hist EXCEPT !.escalations = @ + 1,
                            !.waitBegun = FALSE, !.checked3 = FALSE]

\* the branch "blocked and headless" of a checkpoint: page and context are
\* closed; with a browser of the caller a headed browser is launched, a
\* context and a page are opened on it and it is closed again, otherwise the
\* engine's browser is closed; then performSearch(false)
Escalate ==
    /\ contexts' = [contexts EXCEPT ![context].open = FALSE]
    /\ pageUrl' = pageUrl
    /\ IF existingBrowser
       THEN \E launchOk \in BOOLEAN, contextOk \in BOOLEAN :
              IF ~launchOk
              THEN /\ Caught("LaunchFailure", "browserType.launch: Failed to launch")
                   /\ hist' = Checked
                   /\ UNCHANGED << launched, headless >>
              ELSE /\ launched' = Append(launched, [headless |-> FALSE, open |-> FALSE])
                   /\ IF contextOk
                      THEN Reexecute
                      ELSE /\ Caught("ContextFailure", "browser.newContext: Failed")
                           /\ hist' = Checked
                           /\ UNCHANGED headless
       ELSE /\ launched' = [launched EXCEPT ![browser].open = FALSE]
            /\ Reexecute

\* variant: the wait ends at any navigation
ResolvedUrlsAny(d) == PageUrls(d)

\* the URLs that end the wait: sorryPatterns.every(p => !urlStr.includes(p))
ResolvedUrls(d) == {u \in PageUrls(d) : ~isBlocked(u)}

\* the branch "blocked and headed" of a checkpoint: page.waitForNavigation to
\* a URL that contains none of the patterns, bounded by timeout * 2
WaitVerification(next) ==
    /\ hist' = [Checked EXCEPT !.waited = @ + 1]
    /\ UNCHANGED << contexts, launched, headless >>
    /\ \/ /\ pageUrl' \in ResolvedUrls(selectedDomain)
          /\ pc' = next
          /\ error' = error
       \/ /\ Caught("ChallengeUnresolved", "page.waitForNavigation: Timeout exceeded")
          /\ pageUrl' = pageUrl

\* a checkpoint that found the page not blocked
Proceed(next) ==
    /\ pc' = next
    /\ UNCHANGED << contexts, launched, headless, error, hist, pageUrl >>

\* first checkpoint: the landing page, by page URL and response URL
Checkpoint1 ==
    /\ pc = "checkpoint1"
    /\ LET isBlockedPage == BlockedAt(1, pageUrl, responseUrl)
       IN  IF isBlockedPage
           THEN IF headless THEN Escalate ELSE WaitVerification("input")
           ELSE Proceed("input")
    /\ responseUrl' = NoUrl
    /\ UNCHANGED << fs, host, probe, callerBrowser, callsDone, query, options,
                    existingBrowser, storageState, savedState, browser, context,
                    contextOptions, results, outcome, response >>

\* lookup of the search input, typing of the query, Enter, wait for the load
SubmitQuery ==
    /\ pc = "input"
    /\ \/ Caught("InputNotFound", "Unable to find search input") /\ pageUrl' = pageUrl
       \/ Caught("NavigationTimeout", "page.waitForLoadState: Timeout exceeded")
          /\ pageUrl' = pageUrl
       \/ /\ pageUrl' \in {SearchUrl(selectedDomain), SorryUrl(selectedDomain),
                            SorryUrl(googleDomains[1])}
          /\ pc' = "checkpoint2"
          /\ error' = error
    /\ UNCHANGED << fs, host, probe, callerBrowser, callsDone, query, options,
                    existingBrowser, storageState, savedState, headless, browser,
                    context, contextOptions, launched, contexts, responseUrl,
                    results, outcome, response, hist >>

\* variant: the third check follows the second, before the wait
AfterCheckpoint2Check == "checkpoint3"

\* what follows the second checkpoint: the wait for a result element
AfterCheckpoint2 == "waitResults"

\* second checkpoint: the URL after the query was submitted
Checkpoint2 ==
    /\ pc = "checkpoint2"
    /\ LET isBlockedAfterSearch == BlockedAt(2, pageUrl, responseUrl)
       IN  IF isBlockedAfterSearch
           THEN IF headless THEN Escalate
                ELSE \/ WaitVerification(AfterCheckpoint2)
                     \/ /\ Caught("NavigationTimeout",
                                  "page.waitForLoadState: Timeout exceeded")
                        /\ hist' = [hist EXCEPT !.waited = @ + 1]
                        /\ UNCHANGED << contexts, launched, headless, pageUrl >>
           ELSE Proceed(AfterCheckpoint2)
    /\ UNCHANGED << fs, host, probe, callerBrowser, callsDone, query, options,
                    existingBrowser, storageState, savedState, browser, context,
                    contextOptions, responseUrl, results, outcome, response >>

\* the wait for a result element, one selector after the other; the third
\* check follows only when none was found
WaitResults ==
    /\ pc = "waitResults"
    /\ hist' = [hist EXCEPT !.waitBegun = TRUE]
    /\ \/ pc' = "extract" /\ pageUrl' = pageUrl
       \/ pc' = "checkpoint3" /\ pageUrl' \in PageUrls(selectedDomain)
    /\ UNCHANGED << fs, host, probe, callerBrowser, callsDone, query, options,
                    existingBrowser, storageState, savedState, headless, browser,
                    context, contextOptions, launched, contexts, responseUrl,
                    results, error, outcome, response >>

\* third checkpoint, reached when no result element was found
Checkpoint3 ==
    /\ pc = "checkpoint3"
    /\ LET isBlockedDuringResults == BlockedAt(3, pageUrl, responseUrl)
       IN  IF isBlockedDuringResults
           THEN IF headless THEN Escalate
                ELSE \/ WaitVerification("extract")
                     \/ /\ Caught("ResultsNotFound",
                                  "Unable to find search result element")
                        /\ hist' = [Checked EXCEPT !.waited = @ + 1]
                        /\ pageUrl' \in ResolvedUrls(selectedDomain)
                        /\ UNCHANGED << contexts, launched, headless >>
           ELSE /\ Caught("ResultsNotFound", "Unable to find search result element")
                /\ hist' = Checked
                /\ UNCHANGED << contexts, launched, headless, pageUrl >>
    /\ UNCHANGED << fs, host, probe, callerBrowser, callsDone, query, options,
                    existingBrowser, storageState, savedState, browser, context,
                    contextOptions, responseUrl, results, outcome, response >>


\* ------------------------------------------------------------- extraction
\* A rendered page: for each structural strategy the container elements it
\* selects, and the anchors matched by a[href^='http'].  A container has the
\* text of its title element (undefined when there is none), the href of its
\* first anchor (empty when there is none) and the text of its snippet
\* element; an anchor has its href, its text and the texts of its ancestors.
NumStrategies == 5

Min(a, b) == IF a < b THEN a ELSE b

\* variant: no slice
SliceNothing(els, n) == els

\* elements.slice(0, n)
Slice(els, n) == SubSeq(els, 1, Min(n, Len(els)))

\* textContent || ""
TextOr(t) == IF t = Undefined THEN "" ELSE t

\* variant: only the title is tested
NonEmptyTitle(item) == item.title # ""

\* .filter(item => item.title && item.link)
NonEmpty(item) == item.title # "" /\ item.link # NoUrl

\* one structural strategy: slice, map, filter
StructuralResults(els, maxResults) ==
    LET sliced == Slice(els, maxResults)
        mapped == [i \in 1..Len(sliced) |->
                      [ title   |-> TextOr(sliced[i].h3),
                        link    |-> sliced[i].a,
                        snippet |-> TextOr(sliced[i].snippet) ]]
    IN  SelectSeq(mapped, NonEmpty)

\* href.startsWith("http")
StartsWithHttp(href) == Len(href) > 0 /\ href[1] \in {"http://", "https://"}

\* the anchors the fallback keeps
KeepAnchor(el) ==
    /\ StartsWithHttp(el.href)
    /\ ~Includes(el.href, <<"google", ".co", "m", "/">>)
    /\ ~Includes(el.href, <<"accounts.", "google">>)
    /\ ~Includes(el.href, <<"support.", "google">>)

\* the snippet of the fallback: the longest text among up to three ancestors
\* that differs from the title; texts are [len, text]
RECURSIVE AncestorSnippet(_, _, _, _)
AncestorSnippet(ancestors, title, i, snippet) ==
    IF i > Min(3, Len(ancestors)) THEN snippet.text
    ELSE AncestorSnippet(ancestors, title, i + 1,
            IF ancestors[i].len > snippet.len /\ ancestors[i].text # title
            THEN ancestors[i] ELSE snippet)

\* the generic fallback: filter, slice, map, filter
FallbackResults(anchors, maxResults) ==
    LET sliced == Slice(SelectSeq(anchors, KeepAnchor), maxResults)
        mapped == [i \in 1..Len(sliced) |->
                      [ title   |-> TextOr(sliced[i].text),
                        link    |-> sliced[i].href,
                        snippet |-> AncestorSnippet(sliced[i].ancestors,
                                        TextOr(sliced[i].text), 1,
                                        [len |-> 0, text |-> ""]) ]]
    IN  SelectSeq(mapped, NonEmpty)

\* the loop over resultSelectors: the first strategy with a result wins; a
\* strategy whose evaluation raises is skipped
RECURSIVE StructuralCascade(_, _, _)
StructuralCascade(page, maxResults, i) ==
    IF i > NumStrategies THEN << >>
    ELSE LET r == IF i \in page.raises THEN << >>
                  ELSE StructuralResults(page.containers[i], maxResults)
         IN  IF Len(r) > 0 THEN r
             ELSE StructuralCascade(page, maxResults, i + 1)

\* variant: the generic fallback first, the structural strategies after it
ExtractResultsFallbackFirst(page, maxResults) ==
    LET r == FallbackResults(page.anchors, maxResults)
    IN  IF Len(r) = 0 THEN StructuralCascade(page, maxResults, 1) ELSE r

\* the results of the whole cascade
ExtractResults(page, maxResults) ==
    LET r == StructuralCascade(page, maxResults, 1)
    IN  IF Len(r) = 0 THEN FallbackResults(page.anchors, maxResults) ELSE r

\* sample page content
ExtUrl(name) == <<"https://", name, "/">>
El(h3, a, snippet) == [h3 |-> h3, a |-> a, snippet |-> snippet]
Anchor(href, text, ancestors) == [href |-> href, text |-> text, ancestors |-> ancestors]
Text(t, n) == [text |-> t, len |-> n]

SampleAnchors ==
    << Anchor(<<"https://", "www.", "google", ".co", "m", "/", "preferences">>,
              "Settings", << Text("Settings", 8) >>),
       Anchor(ExtUrl("example.org"), "Example", << Text("Example", 7),
              Text("Example site text", 17) >>),
       Anchor(ExtUrl("empty.org"), Undefined, << >>),
       Anchor(ExtUrl("tla.org"), "TLA", << Text("TLA home", 8) >>) >>

NoContainers == [i \in 1..NumStrategies |-> << >>]

Pages ==
    { [ containers |-> [NoContainers EXCEPT
            ![1] = << El("OpenAI", ExtUrl("openai.com"), "AI lab"),
                      El(Undefined, ExtUrl("ads.net"), "ad"),
                      El("Docs", ExtUrl("docs.org"), Undefined) >>,
            ![3] = << El("Other", ExtUrl("other.org"), "other") >> ],
        anchors |-> SampleAnchors, raises |-> {}, fallbackRaises |-> FALSE ],
      [ containers |-> [NoContainers EXCEPT
            ![2] = << El("Title", NoUrl, "no link") >>,
            ![4] = << El("Sokoban", ExtUrl("sokoban.org"), "s") >> ],
        anchors |-> SampleAnchors, raises |-> {1}, fallbackRaises |-> FALSE ],
      [ containers |-> NoContainers,
        anchors |-> SampleAnchors, raises |-> {}, fallbackRaises |-> FALSE ],
      [ containers |-> NoContainers,
        anchors |-> << >>, raises |-> {}, fallbackRaises |-> FALSE ],
      [ containers |-> NoContainers,
        anchors |-> << >>, raises |-> {1, 2, 3, 4, 5}, fallbackRaises |-> TRUE ] }

\* the extraction step of performSearch; an error of the fallback evaluation
\* is not caught locally
Extract ==
    /\ pc = "extract"
    /\ \E page \in Pages :
         IF Len(StructuralCascade(page, options.limit, 1)) = 0 /\ page.fallbackRaises
         THEN /\ Caught("ExtractionFailure", "page.$$eval: Execution context was destroyed")
              /\ UNCHANGED << results, hist >>
         ELSE /\ results' = ExtractResults(page, options.limit)
              /\ hist' = [hist EXCEPT !.extracted = TRUE]
              /\ pc' = "save"
              /\ error' = error
    /\ UNCHANGED << fs, host, probe, callerBrowser, callsDone, query, options,
                    existingBrowser, storageState, savedState, headless, browser,
                    context, contextOptions, launched, contexts, pageUrl,
                    responseUrl, outcome, response >>


\* ------------------------------------------------------ saving and return
\* variant: the save block of a path without the noSaveState test
SavesStateAlways(o) == TRUE

\* if (!noSaveState)
SavesState(o) == ~o.noSaveState

\* the context of the running attempt is open
ContextOpen ==
    /\ context # 0
    /\ contexts[context].open
    /\ BrowserOpen(contexts[context].browser)

\* the steps of the save block that the environment can make fail
Faults == {"none", "mkdir", "storageState", "writeFile"}

\* The save block, the same on the success and on the failure path: make the
\* directory, context.storageState({path: stateFile}), write the sidecar.  An
\* error of the first two leaves the block; an error of the sidecar write is
\* caught on its own.  fault is the step the environment makes fail.
\* Result: the file system, and what happened.
SaveBlock(f, fault) ==
    LET stateFile == options.stateFile
        untouched == [ fs |-> f, raised |-> FALSE, blob |-> FALSE, sidecar |-> FALSE,
                       closed |-> FALSE, struck |-> "none" ]
    IN  IF ~SavesState(options) THEN untouched
        ELSE IF ~f.dir /\ fault = "mkdir"
             THEN [untouched EXCEPT !.raised = TRUE, !.struck = "mkdir"]
        ELSE LET f1 == [f EXCEPT !.dir = TRUE]
             IN  IF ~ContextOpen
                 THEN [untouched EXCEPT !.fs = f1, !.raised = TRUE, !.closed = TRUE]
                 ELSE IF fault = "storageState"
                 THEN [untouched EXCEPT !.fs = f1, !.raised = TRUE,
                                        !.struck = "storageState"]
                 ELSE LET f2 == [f1 EXCEPT !.files[stateFile] = StorageBlob]
                      IN  IF fault = "writeFile"
                          THEN [untouched EXCEPT !.fs = f2, !.blob = TRUE,
                                                 !.struck = "writeFile"]
                          ELSE [untouched EXCEPT
                                  !.fs = [f2 EXCEPT !.files[FingerprintFile(stateFile)] =
                                              JSONstringify(savedState)],
                                  !.blob = TRUE, !.sidecar = TRUE]

\* the fault is one the block can run into
FaultApplies(f, fault) ==
    \/ fault = "none"
    \/ /\ SavesState(options)
       /\ \/ fault = "mkdir" /\ ~f.dir
          \/ fault \in {"storageState", "writeFile"} /\ ContextOpen

\* variant: the save block of the success path without its own catch
SaveErrorUncaught(saved) == saved.raised

\* catch (error) { logger.error(...) } around the save block of the success
\* path: an error of the save block never leaves it
SaveErrorEscapes(saved) == FALSE

\* variant: the browser is closed whoever supplied it
ClosesAnyBrowser == TRUE

\* if (!browserWasProvided) await browser.close()
ClosesBrowser == ~existingBrowser

\* browser.close(): the browser and every context on it
CloseBrowser ==
    IF ClosesBrowser
    THEN IF browser = 0
         THEN /\ callerBrowser' = "closed"
              /\ launched' = launched
              /\ contexts' = [i \in 1..Len(contexts) |->
                     IF contexts[i].browser = 0
                     THEN [contexts[i] EXCEPT !.open = FALSE] ELSE contexts[i]]
         ELSE /\ callerBrowser' = callerBrowser
              /\ launched' = [launched EXCEPT ![browser].open = FALSE]
              /\ contexts' = [i \in 1..Len(contexts) |->
                     IF contexts[i].browser = browser
                     THEN [contexts[i] EXCEPT !.open = FALSE] ELSE contexts[i]]
    ELSE UNCHANGED << callerBrowser, launched, contexts >>

Recorded(saved, ending) ==
    [hist EXCEPT
        !.sidecarWrites = IF saved.sidecar THEN Append(@, savedState) ELSE @,
        !.blobWrites    = IF saved.blob THEN @ + 1 ELSE @,
        !.savedClosed   = @ \/ saved.closed,
        !.ioFault       = IF saved.struck # "none" THEN saved.struck ELSE @,
        !.ending        = ending]

\* the response of the success path
SuccessResponse(q, r) == [query |-> q, results |-> r]

\* variant: the synthetic result without the message of the error
FailureResponseNoMessage(q, err) ==
    [ query   |-> q,
      results |-> << [ title   |-> "Search failed",
                       link    |-> NoUrl,
                       snippet |-> <<"Unable to complete search">> ] >> ]

\* the response of the failure path
FailureResponse(q, err) ==
    [ query   |-> q,
      results |-> << [ title   |-> "Search failed",
                       link    |-> NoUrl,
                       snippet |-> <<"Unable to complete search, error message: ",
                                     err.message>> ] >> ]

\* end of the try block: save the state, close the engine's browser, return
\* the results
SaveAndReturn ==
    /\ pc = "save"
    /\ \E fault \in Faults :
         /\ FaultApplies(fs, fault)
         /\ LET saved == SaveBlock(fs, fault)
            IN  /\ fs' = saved.fs
                /\ IF saved.raised /\ SaveErrorEscapes(saved)
                   THEN /\ Caught("PersistenceFailure", "save failed")
                        /\ hist' = [hist EXCEPT !.ioFault = saved.struck]
                        /\ UNCHANGED << callerBrowser, launched, contexts,
                                        outcome, response >>
                   ELSE /\ hist' = Recorded(saved, "success")
                        /\ CloseBrowser
                        /\ response' = SuccessResponse(query, results)
                        /\ outcome' = "returned"
                        /\ pc' = "settled"
                        /\ error' = error
    /\ UNCHANGED << host, probe, callsDone, query, options, existingBrowser,
                    storageState, savedState, headless, browser, context,
                    contextOptions, pageUrl, responseUrl, results >>

\* the catch block of performSearch: save the state, close the engine's
\* browser, return the synthetic result
CatchAndReturn ==
    /\ pc = "catch"
    /\ \E fault \in Faults :
         /\ FaultApplies(fs, fault)
         /\ LET saved == SaveBlock(fs, fault)
            IN  /\ fs' = saved.fs
                /\ hist' = Recorded(saved, "failure")
    /\ CloseBrowser
    /\ response' = FailureResponse(query, error)
    /\ outcome' = "returned"
    /\ pc' = "settled"
    /\ UNCHANGED << host, probe, callsDone, query, options, existingBrowser,
                    storageState, savedState, headless, browser, context,
                    contextOptions, pageUrl, responseUrl, results, error >>

\* the caller has the settled call's result; the state of the call is gone,
\* the files and the caller's browser stay
CallerReceives ==
    /\ pc = "settled"
    /\ pc' = "idle"
    /\ query' = ""
    /\ options' = [stateFile |-> options.stateFile]
    /\ existingBrowser' = FALSE
    /\ storageState' = NoPath
    /\ savedState' = [fingerprint |-> NoFingerprint, googleDomain |-> NoDomain]
    /\ headless' = TRUE
    /\ browser' = 0
    /\ context' = 0
    /\ contextOptions' = NoOptions
    /\ launched' = << >>
    /\ contexts' = << >>
    /\ pageUrl' = NoUrl
    /\ responseUrl' = NoUrl
    /\ results' = << >>
    /\ error' = NoError
    /\ outcome' = "pending"
    /\ response' = NoResponse
    /\ hist' = [NewHistory(fs, options.stateFile) EXCEPT
                   !.persisted = IF Len(hist.sidecarWrites) > 0
                                 THEN hist.sidecarWrites[Len(hist.sidecarWrites)]
                                 ELSE hist.persisted]
    /\ UNCHANGED << fs, host, probe, callerBrowser, callsDone >>

\* ----------------------------------------------------------- specification
Next ==
    \/ StartSearch
    \/ CallerReceives
    \/ Launch
    \/ NewContext
    \/ Navigate
    \/ Checkpoint1
    \/ SubmitQuery
    \/ Checkpoint2
    \/ WaitResults
    \/ Checkpoint3
    \/ Extract
    \/ SaveAndReturn
    \/ CatchAndReturn

Spec == Init /\ [][Next]_vars

\* the files as an earlier call with persistence leaves them: the session
\* blob, and the sidecar with the fingerprint of the host and a domain
PersistedFiles ==
    { [dir |-> TRUE,
       files |-> [p \in Paths |->
                     IF p = sf THEN StorageBlob
                     ELSE IF p = FingerprintFile(sf)
                     THEN JSONstringify([fingerprint |-> getHostMachineConfig(hs, "hu-HU"),
                                         googleDomain |-> d])
                     ELSE Absent]] :
      sf \in StateFiles, hs \in Hosts, d \in {googleDomains[1], googleDomains[5]} }

\* before the last call of a run: the files absent, or left by an earlier call
InitLastCall ==
    /\ fs \in { [dir |-> d, files |-> [p \in Paths |-> Absent]] : d \in BOOLEAN }
              \cup PersistedFiles
    /\ callsDone = MaxCalls - 1
    /\ Idle
    /\ probe = NoProbe

\* every browser operation returns or times out, and the caller takes the
\* result: a step that can be taken is taken
FairSpec == InitLastCall /\ [][Next]_vars /\ WF_vars(Next)

\* the calls when the files were left by something other than the engine: a
\* state file that is a session blob or not JSON, a sidecar that is absent,
\* not JSON, or the JSON text null
InitDamaged ==
    /\ \E sf \in StateFiles :
         fs \in { [dir |-> TRUE,
                   files |-> [p \in Paths |->
                                 IF p = sf THEN blob
                                 ELSE IF p = FingerprintFile(sf) THEN side
                                 ELSE Absent]] :
                  blob \in {StorageBlob, Unparsable},
                  side \in {Absent, Unparsable, JSONnull} }
    /\ NoCall
    /\ probe = NoProbe

SpecDamaged == InitDamaged /\ [][Next]_vars

\* ----------------------------------------- functions applied on their own
\* the variables of the calls
callVars == << fs, host, callerBrowser, callsDone, query, options,
               existingBrowser, storageState, savedState, pc, headless, browser,
               context, contextOptions, launched, contexts, pageUrl,
               responseUrl, results, error, outcome, response, hist >>

\* no call is made
Quiet ==
    /\ fs = [dir |-> FALSE, files |-> [p \in Paths |-> Absent]]
    /\ NoCall

\* values of the stateFile option: any path that does not end in a separator
PathTokens == {"state", "data", ".json", ".bak", "/"}
StatePaths ==
    { p \in UNION { [1..n -> PathTokens] : n \in 1..MaxPathLen } : p[Len(p)] # "/" }

\* a saved state to write
SampleSavedState ==
    [ fingerprint  |-> getHostMachineConfig(CHOOSE hs \in Hosts : TRUE, "hu-HU"),
      googleDomain |-> googleDomains[1] ]

InitPaths ==
    /\ Quiet
    /\ probe \in { [ fn |-> "fingerprintFile", step |-> "start", stateFile |-> p,
                      fingerprintFile |-> NoPath, atStateFile |-> Absent ] :
                    p \in StatePaths }

\* const fingerprintFile = stateFile.replace(".json", "-fingerprint.json")
DeriveFingerprintFile ==
    /\ probe.fn = "fingerprintFile"
    /\ probe.step = "start"
    /\ probe' = [probe EXCEPT !.step = "derived",
                              !.fingerprintFile = FingerprintFile(probe.stateFile)]
    /\ UNCHANGED callVars

\* the two writes of the save block, one after the other: the session blob to
\* stateFile, the saved state to fingerprintFile
WriteStateFiles ==
    /\ probe.fn = "fingerprintFile"
    /\ probe.step = "derived"
    /\ LET files == [ f \in {probe.stateFile, probe.fingerprintFile} |->
                         IF f = probe.fingerprintFile
                         THEN JSONstringify(SampleSavedState)
                         ELSE StorageBlob ]
       IN  probe' = [probe EXCEPT !.step = "saved",
                                  !.atStateFile = files[probe.stateFile]]
    /\ UNCHANGED callVars

NextPaths ==
    \/ DeriveFingerprintFile
    \/ WriteStateFiles

SpecPaths == InitPaths /\ [][NextPaths]_vars

\* lists of up to MaxElements elements of the given kinds
ElementLists(kinds) == UNION { [1..n -> kinds] : n \in 0..MaxElements }

\* the domain of the session the pages below are rendered in
RenderedDomain == googleDomains[5]

\* a link of the page into the provider's domain of the session
HomeAnchor ==
    Anchor(RenderedDomain \o <<"/", "preferences">>, "Settings",
           << Text("Settings", 8) >>)

\* rendered pages: containers for the first and the fourth strategy (with and
\* without title and link), anchors (external, of the provider, without
\* text), and the evaluations that raise
RenderedPages ==
    { [ containers |-> [NoContainers EXCEPT ![1] = c1, ![4] = c4],
        anchors |-> an, raises |-> rs, fallbackRaises |-> fr ] :
      c1 \in ElementLists({ El("OpenAI", ExtUrl("openai.com"), "AI lab"),
                            El(Undefined, ExtUrl("ads.net"), "ad"),
                            El("Title", NoUrl, "no link") }),
      c4 \in ElementLists({ El("Sokoban", ExtUrl("sokoban.org"), "s") }),
      an \in ElementLists({ SampleAnchors[1], SampleAnchors[2], SampleAnchors[3],
                            HomeAnchor }),
      rs \in { {}, {1}, 1..NumStrategies },
      fr \in BOOLEAN }

InitExtraction ==
    /\ Quiet
    /\ probe \in { [ fn |-> "extract", step |-> "start", query |-> "tla",
                      domain |-> RenderedDomain,
                      limit |-> l, page |-> pg, results |-> << >>,
                      error |-> NoError, response |-> NoResponse ] :
                    l \in 1..MaxLimit, pg \in RenderedPages }

\* the extraction step of performSearch on the page
ExtractPage ==
    /\ probe.fn = "extract"
    /\ probe.step = "start"
    /\ probe' =
         IF /\ Len(StructuralCascade(probe.page, probe.limit, 1)) = 0
            /\ probe.page.fallbackRaises
         THEN [probe EXCEPT !.step = "raised",
                 !.error = [ kind |-> "ExtractionFailure",
                             message |-> "page.$$eval: Execution context was destroyed" ]]
         ELSE [probe EXCEPT !.step = "extracted",
                 !.results = ExtractResults(probe.page, probe.limit)]
    /\ UNCHANGED callVars

\* the response performSearch returns after the extraction step
ReturnResponse ==
    /\ probe.fn = "extract"
    /\ probe.step \in {"extracted", "raised"}
    /\ probe' = [probe EXCEPT !.step = "returned",
                   !.response = IF probe.step = "raised"
                                THEN FailureResponse(probe.query, probe.error)
                                ELSE SuccessResponse(probe.query, probe.results)]
    /\ UNCHANGED callVars

NextExtraction ==
    \/ ExtractPage
    \/ ReturnResponse

SpecExtraction == InitExtraction /\ [][NextExtraction]_vars

\* URLs a page or a response can have: ordinary ones, and ones that hold the
\* patterns
CheckedUrls ==
    UNION { { HomeUrl(d), SearchUrl(d), SorryUrl(d), d \o <<"/", "sorry">>,
              d \o <<"/", "re", "captcha", "/", "api">>,
              d \o <<"/", "search", "?", "q=", "unusual traffic">> } :
            d \in {googleDomains[1], googleDomains[5]} }
    \cup { SorryUrl(googleDomains[i]) : i \in 1..Len(googleDomains) }
    \cup { <<"https://", "example.org", "/", "captcha">>,
           <<"https://", "example.org", "/", "sorry">> }

InitChecks ==
    /\ Quiet
    /\ probe \in { [ fn |-> "isBlocked", step |-> "start", checkpoint |-> k,
                      url |-> u, response |-> r,
                      blocked |-> FALSE, again |-> FALSE ] :
                    k \in 1..3, u \in CheckedUrls, r \in CheckedUrls \cup {NoUrl} }

\* the check of a checkpoint
ClassifyPage ==
    /\ probe.fn = "isBlocked"
    /\ probe.step = "start"
    /\ probe' = [probe EXCEPT !.step = "classified",
                   !.blocked = BlockedAt(probe.checkpoint, probe.url, probe.response)]
    /\ UNCHANGED callVars

\* the same check on the same URLs once more
ClassifyAgain ==
    /\ probe.fn = "isBlocked"
    /\ probe.step = "classified"
    /\ probe' = [probe EXCEPT !.step = "repeated",
                   !.again = BlockedAt(probe.checkpoint, probe.url, probe.response)]
    /\ UNCHANGED callVars

NextChecks ==
    \/ ClassifyPage
    \/ ClassifyAgain

SpecChecks == InitChecks /\ [][NextChecks]_vars

\* host signals: getTimezoneOffset() in steps of half an hour, an hour of the
\* night and one of the day, LANG set or not, the platforms the code names
\* and another one
HostSignals ==
    [ timezoneOffset : { 30 * k : k \in (-2 * MaxOffsetHours)..(2 * MaxOffsetHours) },
      hour           : {3, 12},
      LANG           : {Undefined, "en_GB.UTF-8"},
      platform       : {"darwin", "win32", "linux", "freebsd"} ]

\* saved states a call can start from: none, and fingerprints of a desktop
\* descriptor, of a mobile descriptor and of a name playwright does not know
SavedFingerprints ==
    { [fingerprint |-> NoFingerprint, googleDomain |-> NoDomain] }
    \cup
    { [ fingerprint |-> [ deviceName |-> dn, locale |-> "de-DE",
                          timezoneId |-> "Europe/Berlin", colorScheme |-> "light",
                          reducedMotion |-> "no-preference", forcedColors |-> "none" ],
        googleDomain |-> googleDomains[1] ] :
      dn \in {"Desktop Safari", "iPhone 13", "Nokia 3310"} }

InitProfiles ==
    /\ Quiet
    /\ probe \in
         { [ fn |-> "synthesize", step |-> "start", host |-> hs, hint |-> l,
             profile |-> NoFingerprint, again |-> NoFingerprint ] :
           hs \in HostSignals, l \in LocaleHints \cup {Undefined} }
         \cup
         { [ fn |-> "contextOptions", step |-> "start", host |-> hs, saved |-> ss,
             randomDevice |-> rd, contextOptions |-> NoOptions ] :
           hs \in { x \in HostSignals : x.timezoneOffset = 0 /\ x.hour = 12 },
           ss \in SavedFingerprints, rd \in Range(deviceList) }

\* the options object of a caller with the locale hint l, or without one
OptionsWithHint(l) ==
    IF l = Undefined
    THEN [limit |-> 10, stateFile |-> CHOOSE sf \in StateFiles : TRUE]
    ELSE [limit |-> 10, stateFile |-> CHOOSE sf \in StateFiles : TRUE, locale |-> l]

\* getHostMachineConfig(locale) as a search without saved fingerprint calls it
Synthesize ==
    /\ probe.fn = "synthesize"
    /\ probe.step = "start"
    /\ probe' = [probe EXCEPT !.step = "synthesized",
                   !.profile = getHostMachineConfig(probe.host,
                                   WithDefaults(OptionsWithHint(probe.hint)).locale)]
    /\ UNCHANGED callVars

\* the same synthesis on the same host signals once more
SynthesizeAgain ==
    /\ probe.fn = "synthesize"
    /\ probe.step = "synthesized"
    /\ probe' = [probe EXCEPT !.step = "repeated",
                   !.again = getHostMachineConfig(probe.host,
                                 WithDefaults(OptionsWithHint(probe.hint)).locale)]
    /\ UNCHANGED callVars

\* the context options of an execution of performSearch
BuildOptions ==
    /\ probe.fn = "contextOptions"
    /\ probe.step = "start"
    /\ probe' = [probe EXCEPT !.step = "built",
                   !.contextOptions =
                       BuildContextOptions(probe.saved, probe.host,
                           WithDefaults(OptionsWithHint(Undefined)).locale,
                           probe.randomDevice)]
    /\ UNCHANGED callVars

NextProfiles ==
    \/ Synthesize
    \/ SynthesizeAgain
    \/ BuildOptions

SpecProfiles == InitProfiles /\ [][NextProfiles]_vars

\* two googleSearch calls in flight on one state file, as two tool calls of
\* the server are: each runs from one await to the next without interruption
\* and the other call may run in between.  A call is followed here through
\* the steps that read or write its saved state and the files.
Callers == 1..2

InitOverlap ==
    /\ Quiet
    /\ probe = [ fn |-> "overlap",
                 calls |-> [ i \in Callers |->
                               [ pc |-> "idle",
                                 savedState |-> [fingerprint |-> NoFingerprint,
                                                 googleDomain |-> NoDomain],
                                 loadedDomain |-> NoDomain,
                                 navigations |-> << >> ] ],
                 lastWriter |-> 0 ]

\* the variables of the calls but the files
overlapVars == << host, callerBrowser, callsDone, query, options,
                  existingBrowser, storageState, savedState, pc, headless,
                  browser, context, contextOptions, launched, contexts, pageUrl,
                  responseUrl, results, error, outcome, response, hist >>

\* googleSearch up to the first await: the saved state is loaded
OverlapLoad ==
    /\ probe.fn = "overlap"
    /\ \E i \in Callers :
         /\ probe.calls[i].pc = "idle"
         /\ LET ss == LoadSavedState(fs, options.stateFile)
            IN  probe' = [probe EXCEPT !.calls[i].pc = "context",
                                       !.calls[i].savedState = ss,
                                       !.calls[i].loadedDomain = ss.googleDomain]
    /\ UNCHANGED << fs, overlapVars >>

\* the context options: savedState.fingerprint = hostConfig when none is saved
OverlapContext ==
    /\ probe.fn = "overlap"
    /\ \E i \in Callers :
         /\ probe.calls[i].pc = "context"
         /\ probe' = [probe EXCEPT
                !.calls[i].pc = "goto",
                !.calls[i].savedState.fingerprint =
                    ActiveFingerprint(probe.calls[i].savedState, host,
                        WithDefaults(OptionsWithHint(Undefined)).locale)]
    /\ UNCHANGED << fs, overlapVars >>

\* domain selection and page.goto
OverlapNavigate ==
    /\ probe.fn = "overlap"
    /\ \E i \in Callers, pick \in Range(googleDomains) :
         /\ probe.calls[i].pc = "goto"
         /\ LET domain == SelectDomain(probe.calls[i].savedState, pick)
            IN  probe' = [probe EXCEPT
                   !.calls[i].pc = "saveBlob",
                   !.calls[i].savedState.googleDomain = domain,
                   !.calls[i].navigations = Append(@, domain)]
    /\ UNCHANGED << fs, overlapVars >>

\* mkdirSync and await context.storageState({ path: stateFile })
OverlapSaveBlob ==
    /\ probe.fn = "overlap"
    /\ \E i \in Callers :
         /\ probe.calls[i].pc = "saveBlob"
         /\ probe' = [probe EXCEPT !.calls[i].pc = "saveSidecar"]
         /\ fs' = [fs EXCEPT !.dir = TRUE,
                             !.files[options.stateFile] = StorageBlob]
    /\ UNCHANGED overlapVars

\* fs.writeFileSync(fingerprintFile, JSON.stringify(savedState, null, 2))
OverlapSaveSidecar ==
    /\ probe.fn = "overlap"
    /\ \E i \in Callers :
         /\ probe.calls[i].pc = "saveSidecar"
         /\ probe' = [probe EXCEPT !.calls[i].pc = "done", !.lastWriter = i]
         /\ fs' = [fs EXCEPT !.files[FingerprintFile(options.stateFile)] =
                                 JSONstringify(probe.calls[i].savedState)]
    /\ UNCHANGED overlapVars

NextOverlap ==
    \/ OverlapLoad
    \/ OverlapContext
    \/ OverlapNavigate
    \/ OverlapSaveBlob
    \/ OverlapSaveSidecar

SpecOverlap == InitOverlap /\ [][NextOverlap]_vars


\* -------------------------------------------------------------- properties
Settled == pc = "settled"
FingerprintPath == FingerprintFile(options.stateFile)
Checkpoints == {"checkpoint1", "checkpoint2", "checkpoint3"}

\* the classification the checkpoint the call stands at makes
BlockedAtCheckpoint ==
    IF pc = "checkpoint1"
    THEN isBlocked(pageUrl) \/ (responseUrl # NoUrl /\ isBlocked(responseUrl))
    ELSE isBlocked(pageUrl)

\* the response is the synthetic failed result for the call's query and error
IsFailureResponse ==
    /\ outcome = "returned"
    /\ response.query = query
    /\ Len(response.results) = 1
    /\ response.results[1].title = "Search failed"
    /\ response.results[1].link = NoUrl
    /\ \E i \in 1..Len(response.results[1].snippet) :
           response.results[1].snippet[i] = error.message

\* C1: an error raised inside the attempt procedure (navigation timeout,
\* unresolved challenge in headed mode, search input not found, result
\* elements not found) makes the call return, not throw, the response with
\* the input query and the single "Search failed" result whose snippet
\* contains the error message.
C1_AttemptErrorIsReturned ==
    (Settled /\ error.kind \in {"NavigationTimeout", "ChallengeUnresolved",
                                "InputNotFound", "ResultsNotFound"})
        => IsFailureResponse

C1_Witness ==
    /\ Settled
    /\ error.kind = "ChallengeUnresolved"
    /\ hist.escalations = 1
    /\ outcome = "returned"

\* C2: a failed launch of the automation backend, in the first attempt or in
\* the headed fallback attempt, makes the call return the "Search failed"
\* response instead of throwing.
C2_LaunchFailureIsReturned ==
    (Settled /\ error.kind = "LaunchFailure") => IsFailureResponse

\* C3: a call escalates from headless to headed at most once: a challenge
\* found while headless leads to exactly one re-execution, in headed mode (or
\* to the failure of the attempt when the headed browser cannot be started),
\* and a challenge found in a headed attempt waits for the page to leave the
\* blocked URLs and creates no session.
C3_EscalatesAtMostOnce ==
    /\ [](hist.escalations <= 1 /\ hist.attempts <= 2)
    /\ [][ (pc \in Checkpoints /\ BlockedAtCheckpoint /\ headless)
             => \/ pc' = "launch" /\ hist'.escalations = 1 /\ ~headless'
                \/ pc' = "catch" /\ existingBrowser /\ hist'.escalations = 0 ]_vars
    /\ [][ (pc \in Checkpoints /\ BlockedAtCheckpoint /\ ~headless)
             => /\ hist'.waited = hist.waited + 1
                /\ hist'.escalations = hist.escalations
                /\ launched' = launched
                /\ contexts' = contexts
                /\ pc' # "launch" ]_vars

C3_Witness ==
    /\ Settled
    /\ hist.escalations = 1
    /\ hist.waited >= 1
    /\ hist.ending = "success"

\* C4: with a browser of the caller, after the escalation no context is
\* created on the caller's browser and the headed attempt does not run on it.
C4_FallbackLeavesCallersBrowser ==
    (existingBrowser /\ hist.escalations > 0)
        => /\ hist.onCaller = 0
           /\ pc \notin {"launch", "settled"} => browser # 0

\* C5: the engine never closes a browser supplied by the caller.
C5_CallersBrowserStaysOpen == callerBrowser = "open"

C5_Witness ==
    /\ Settled
    /\ existingBrowser
    /\ hist.escalations = 1
    /\ hist.ending = "failure"
    /\ callerBrowser = "open"

\* C6: when the call has settled, by return or by throw, every browser the
\* engine launched during it is closed.
C6_LaunchedBrowsersClosed ==
    Settled => \A i \in 1..Len(launched) : ~launched[i].open

\* C7: with a domain pinned in the sidecar of the state file, every
\* navigation of the call goes to that domain and nothing is picked at
\* random; without one, every navigation goes to one and the same of the
\* five candidates, and a sidecar written by the call holds that domain.
C7_PinnedDomainIsUsed ==
    /\ hist.pinnedAtStart # NoDomain =>
          /\ \A i \in 1..Len(hist.navigations) :
                 hist.navigations[i] = hist.pinnedAtStart
          /\ hist.randomPicks = 0
    /\ hist.pinnedAtStart = NoDomain =>
          /\ \A i \in 1..Len(hist.navigations) :
                 /\ hist.navigations[i] \in Range(googleDomains)
                 /\ hist.navigations[i] = hist.navigations[1]
          /\ hist.randomPicks <= 1
    /\ (Settled /\ Len(hist.sidecarWrites) > 0) =>
          Member(fs.files[FingerprintPath], "googleDomain", NoDomain)
              = hist.navigations[Len(hist.navigations)]

C7_Witness ==
    /\ Settled
    /\ hist.pinnedAtStart # NoDomain
    /\ hist.pinnedAtStart # googleDomains[1]
    /\ Len(hist.navigations) = 2
    /\ Len(hist.sidecarWrites) > 0

\* C8: with persistence enabled, an attempt that ends in success or in
\* failure has written the saved state (fingerprint and domain) to the
\* sidecar when the call settles, unless the environment made a step of the
\* save fail.
C8_EveryEndingWritesSidecar ==
    (Settled /\ SavesState(options) /\ hist.ending \in {"success", "failure"}
        /\ hist.ioFault = "none")
        => /\ Len(hist.sidecarWrites) = 1
           /\ fs.files[FingerprintPath] = JSONstringify(savedState)

\* C9: once extraction produced the results R, a failure of the save (making
\* the directory, saving the session blob, writing the sidecar) leaves the
\* returned response equal to {query, R}.
C9_SaveFailureKeepsResults ==
    (Settled /\ hist.extracted /\ hist.ioFault # "none")
        => /\ outcome = "returned"
           /\ response = [query |-> query, results |-> results]

C9_Witness ==
    /\ Settled
    /\ hist.extracted
    /\ hist.ioFault = "storageState"
    /\ Len(results) > 0
    /\ response = [query |-> query, results |-> results]

\* C10: with noSaveState the call leaves the state file, the sidecar and
\* their directory as they were when it started, on every path.
C10_NoSaveStateLeavesFiles ==
    (pc # "idle" /\ options.noSaveState) => fs = hist.fsAtStart

C10_Witness ==
    /\ Settled
    /\ options.noSaveState
    /\ hist.escalations = 1
    /\ hist.ending = "failure"
    /\ ~hist.fsAtStart.dir
    /\ fs = hist.fsAtStart

\* C11: when the persisted state is damaged (state file or sidecar absent,
\* not parsable, or the JSON text null) the call starts from the empty saved
\* state, and loading never raises: no call is rejected by an error of
\* reading the saved state.
C11_DamagedStateIsEmptyState ==
    /\ (pc = "launch" /\ hist.attempts = 0 /\ hist.corruptAtStart)
          => savedState = [fingerprint |-> NoFingerprint, googleDomain |-> NoDomain]
    /\ Settled => error.kind \notin {"SavedStateTypeError", "StorageStateUnreadable"}

\* C12: round trip: the saved state a call wrote to the sidecar (persistence
\* enabled, the writes succeeded) is, in fingerprint and in domain, the saved
\* state the next call on the same state file starts from.
C12_PersistedStateIsReloaded ==
    (pc = "launch" /\ hist.attempts = 0 /\ hist.persisted # NothingPersisted)
        => /\ savedState.fingerprint = hist.persisted.fingerprint
           /\ savedState.googleDomain = hist.persisted.googleDomain

C12_Witness ==
    /\ pc = "launch"
    /\ hist.attempts = 0
    /\ hist.persisted # NothingPersisted
    /\ hist.persisted.googleDomain = googleDomains[5]
    /\ hist.persisted.fingerprint = getHostMachineConfig(host, "en-US")
    /\ savedState = hist.persisted

\* the path with its final extension replaced by "-fingerprint.json"
IsExtension(token) == token \in {".json", ".bak"}
FinalExtensionReplaced(path) ==
    (IF IsExtension(path[Len(path)]) THEN SubSeq(path, 1, Len(path) - 1) ELSE path)
        \o <<"-fingerprint", ".json">>

\* C13: for every state-file path the sidecar path is the path with its final
\* extension replaced by "-fingerprint.json" and differs from the path, so
\* after a save the state file holds the session blob.
C13_SidecarReplacesExtension ==
    /\ (probe.fn = "fingerprintFile" /\ probe.step # "start")
          => /\ probe.fingerprintFile = FinalExtensionReplaced(probe.stateFile)
             /\ probe.fingerprintFile # probe.stateFile
    /\ (probe.fn = "fingerprintFile" /\ probe.step = "saved")
          => probe.atStateFile = StorageBlob

\* C14: for every limit > 0 and every page the returned response has at most
\* limit results, whether a structural strategy or the fallback produced
\* them, and also when it is the failure response.
C14_AtMostLimitResults ==
    (probe.fn = "extract" /\ probe.step = "returned")
        => Len(probe.response.results) <= probe.limit

C14_Witness ==
    /\ probe.fn = "extract"
    /\ probe.step = "returned"
    /\ Len(StructuralCascade(probe.page, probe.limit, 1)) = 0
    /\ Len(SelectSeq(probe.page.anchors, KeepAnchor)) > probe.limit
    /\ Len(probe.response.results) = probe.limit

\* what strategy i of the page yields on its own
StrategyYield(i) ==
    IF i \in probe.page.raises THEN << >>
    ELSE StructuralResults(probe.page.containers[i], probe.limit)

\* C15: the cascade is ordered: the results are those of the first structural
\* strategy, in list order, that yields at least one valid result, whatever
\* the later strategies and the anchors of the page hold; the generic link
\* fallback is used only when every structural strategy yields nothing or
\* raises.
C15_CascadeIsOrdered ==
    (probe.fn = "extract" /\ probe.step = "extracted")
        => /\ \A i \in 1..NumStrategies :
                 (Len(StrategyYield(i)) > 0
                    /\ \A j \in 1..(i - 1) : Len(StrategyYield(j)) = 0)
                 => probe.results = StrategyYield(i)
           /\ (\A i \in 1..NumStrategies : Len(StrategyYield(i)) = 0)
                 => probe.results = FallbackResults(probe.page.anchors, probe.limit)

C15_Witness ==
    /\ probe.fn = "extract"
    /\ probe.step = "extracted"
    /\ Len(probe.page.containers[1]) > 0
    /\ Len(StrategyYield(1)) = 0
    /\ Len(StrategyYield(4)) > 0
    /\ Len(FallbackResults(probe.page.anchors, probe.limit)) > 0
    /\ probe.results = StrategyYield(4)

\* C16 as claimed: no result of any returned response has an empty title or
\* an empty link.
C16_NoEmptyTitleOrLink ==
    (Settled /\ outcome = "returned")
        => \A i \in 1..Len(response.results) :
               /\ response.results[i].title # ""
               /\ response.results[i].link # NoUrl

\* C16: no result of a response returned on the success path has an empty
\* title or an empty link; the single result of the failure response has the
\* title "Search failed" and the empty link.
C16_ExtractedResultsNonEmpty ==
    /\ (Settled /\ outcome = "returned" /\ hist.ending = "success")
          => \A i \in 1..Len(response.results) :
                 /\ response.results[i].title # ""
                 /\ response.results[i].link # NoUrl
    /\ (Settled /\ outcome = "returned" /\ hist.ending = "failure")
          => /\ Len(response.results) = 1
             /\ response.results[1].title = "Search failed"
             /\ response.results[1].link = NoUrl

C16_Witness ==
    /\ Settled
    /\ hist.ending = "success"
    /\ Len(response.results) = 1
    /\ response.results[1].title = "OpenAI"
    /\ response.results[1].link = ExtUrl("openai.com")

\* C17: when every structural strategy and the generic fallback yield no
\* result, the call ends in the failure outcome: the response is the single
\* synthetic "Search failed" result.
C17_EmptyExtractionFails ==
    (Settled /\ hist.extracted /\ Len(results) = 0)
        => /\ outcome = "returned"
           /\ Len(response.results) = 1
           /\ response.results[1].title = "Search failed"

\* C18: the first execution of performSearch of every call is headless,
\* whatever the headless option is, and an execution is headed only after an
\* escalation.
C18_FirstAttemptHeadless ==
    /\ hist.attempts >= 1 => hist.firstMode
    /\ (hist.attempts >= 1 /\ pc # "idle" /\ ~headless) => hist.escalations >= 1

\* C19 as claimed: in every execution the check of the third checkpoint is
\* evaluated before the wait for result elements begins.
C19_ThirdCheckBeforeWait ==
    hist.waitBegun => hist.checked3

\* C19: in every execution the check of the third checkpoint is evaluated
\* only after the wait for result elements has ended without finding one;
\* when an element is found the execution extracts without a third check,
\* and extraction follows the third check only through the headed wait.
C19_ThirdCheckAfterFailedWait ==
    /\ hist.checked3 => hist.waitBegun
    /\ pc = "checkpoint3" => hist.waitBegun /\ ~hist.checked3
    /\ pc = "waitResults" => ~hist.waitBegun /\ ~hist.checked3
    /\ (pc = "extract" /\ hist.checked3) => ~headless /\ hist.waited >= 1

C19_Witness ==
    /\ pc = "extract"
    /\ hist.waitBegun
    /\ hist.checked3
    /\ hist.escalations = 1

\* the five fixed substrings
FixedSubstrings ==
    { <<"google", ".co", "m", "/", "sorry", "/", "index">>,
      <<"google", ".co", "m", "/", "sorry">>,
      <<"re", "captcha">>,
      <<"captcha">>,
      <<"unusual traffic">> }
HoldsSubstring(url) == \E s \in FixedSubstrings : Includes(url, s)

\* C20 as claimed: at each of the three checkpoints the page is blocked
\* exactly when the page URL or the URL of the last response holds one of the
\* five substrings.
C20_BlockedIffEitherUrlMatches ==
    (probe.fn = "isBlocked" /\ probe.step # "start")
        => (probe.blocked <=>
               \/ HoldsSubstring(probe.url)
               \/ probe.response # NoUrl /\ HoldsSubstring(probe.response))

\* C20: at the first checkpoint the page is blocked exactly when the page URL
\* or the URL of the response of the navigation (when there is one) holds one
\* of the five substrings; at the second and the third exactly when the page
\* URL holds one, whatever the response was.  The same URLs always get the
\* same classification.
C20_BlockedByCheckpoint ==
    /\ (probe.fn = "isBlocked" /\ probe.step # "start" /\ probe.checkpoint = 1)
          => (probe.blocked <=>
                 \/ HoldsSubstring(probe.url)
                 \/ probe.response # NoUrl /\ HoldsSubstring(probe.response))
    /\ (probe.fn = "isBlocked" /\ probe.step # "start" /\ probe.checkpoint # 1)
          => (probe.blocked <=> HoldsSubstring(probe.url))
    /\ (probe.fn = "isBlocked" /\ probe.step = "repeated")
          => probe.again = probe.blocked

C20_Witness ==
    /\ probe.fn = "isBlocked"
    /\ probe.step = "repeated"
    /\ probe.checkpoint = 2
    /\ probe.url = SearchUrl(googleDomains[1])
    /\ probe.response = SorryUrl(googleDomains[1])
    /\ ~probe.blocked

\* C21: the options of every context have isMobile = false and hasTouch =
\* false, for every device descriptor and every loaded or synthesized
\* fingerprint.
C21_ContextsAreDesktop ==
    (probe.fn = "contextOptions" /\ probe.step = "built")
        => /\ ~probe.contextOptions.isMobile
           /\ ~probe.contextOptions.hasTouch

C21_Witness ==
    /\ probe.fn = "contextOptions"
    /\ probe.step = "built"
    /\ probe.saved.fingerprint # NoFingerprint
    /\ probe.saved.fingerprint.deviceName = "iPhone 13"
    /\ probe.contextOptions.device = "iPhone 13"
    /\ ~probe.contextOptions.isMobile

\* C22: a newly synthesized fingerprint has the device "Desktop Chrome" on
\* every host platform.
C22_SynthesizedDeviceIsChrome ==
    (probe.fn = "synthesize" /\ probe.step # "start")
        => probe.profile.deviceName = "Desktop Chrome"

C22_Witness ==
    /\ probe.fn = "synthesize"
    /\ probe.step = "synthesized"
    /\ probe.host.platform = "darwin"
    /\ probe.profile.deviceName = "Desktop Chrome"

\* the table of offset ranges: lo < offset <= hi gives zone
Unbounded == -100000
TimezoneRanges ==
    { [lo |-> -600, hi |-> -480, zone |-> "Asia/Shanghai"],
      [lo |-> Unbounded, hi |-> -540, zone |-> "Asia/Tokyo"],
      [lo |-> -480, hi |-> -420, zone |-> "Asia/Bangkok"],
      [lo |-> -60, hi |-> 0, zone |-> "Europe/London"],
      [lo |-> 0, hi |-> 60, zone |-> "Europe/Berlin"],
      [lo |-> 60, hi |-> 180, zone |-> "Europe/Budapest"],
      [lo |-> 240, hi |-> 300, zone |-> "America/New_York"] }
InRange(offset, r) == r.lo < offset /\ offset <= r.hi

\* C23: the synthesized timezone is determined by the offset alone: an
\* offset inside a range of the table gives the zone of that range, any
\* other offset gives Asia/Shanghai, and a second synthesis on the same host
\* signals gives the same profile.
C23_ZoneOfOffsetRange ==
    (probe.fn = "synthesize" /\ probe.step # "start")
        => /\ \A r \in TimezoneRanges :
                 InRange(probe.host.timezoneOffset, r)
                     => probe.profile.timezoneId = r.zone
           /\ (\A r \in TimezoneRanges : ~InRange(probe.host.timezoneOffset, r))
                 => probe.profile.timezoneId = "Asia/Shanghai"
           /\ probe.step = "repeated" => probe.again = probe.profile

\* C24: the locale of a newly synthesized fingerprint is the caller's locale
\* hint when one is given, otherwise LANG when it is set, otherwise the fixed
\* default of the synthesis.
C24_LocaleHintThenLangThenDefault ==
    (probe.fn = "synthesize" /\ probe.step # "start")
        => probe.profile.locale =
               IF probe.hint # Undefined THEN probe.hint
               ELSE IF probe.host.LANG # Undefined THEN probe.host.LANG
               ELSE "zh-CN"

\* C28: every whole-hour offset gives the zone its comment names: -540
\* Asia/Tokyo, -480 Asia/Shanghai, -420 Asia/Bangkok, 0 Europe/London, 300
\* America/New_York.
C28_WholeHourZones ==
    (probe.fn = "synthesize" /\ probe.step # "start")
        => LET offset == probe.host.timezoneOffset
               zone == probe.profile.timezoneId
           IN  /\ offset = -540 => zone = "Asia/Tokyo"
               /\ offset = -480 => zone = "Asia/Shanghai"
               /\ offset = -420 => zone = "Asia/Bangkok"
               /\ offset = 0 => zone = "Europe/London"
               /\ offset = 300 => zone = "America/New_York"

\* C25: results of the generic fallback never link into the provider's domain
\* the session selected, nor into the accounts or support hosts.
C25_FallbackLeavesProvider ==
    (probe.fn = "extract" /\ probe.step = "extracted"
        /\ Len(StructuralCascade(probe.page, probe.limit, 1)) = 0)
        => \A i \in 1..Len(probe.results) :
               /\ ~Includes(probe.results[i].link, Tail(probe.domain))
               /\ ~Includes(probe.results[i].link, <<"accounts.", "google">>)
               /\ ~Includes(probe.results[i].link, <<"support.", "google">>)

\* the saved state the call loaded when it started
LoadedAtStart == LoadSavedState(hist.fsAtStart, options.stateFile)

C27_CallSettlesInTwoAttempts ==
    /\ [](hist.attempts <= 2)
    /\ [](hist.attempts = 2 => hist.escalations = 1 /\ ~headless)
    /\ (pc \notin {"idle", "settled"}) ~> Settled

C27_Witness ==
    /\ Settled
    /\ hist.attempts = 2
    /\ hist.waited = 3

\* C29: the query is never typed or submitted on a page classified as
\* blocked: the lookup of the search input follows only the landing-page
\* check, and only when it found the page not blocked or, headed, after the
\* page navigated to a URL that holds none of the patterns.
C29_NoQueryOnBlockedPage ==
    /\ [](pc = "input" => ~isBlocked(pageUrl))
    /\ [][ (pc' = "input" /\ pc # "input")
             => /\ pc = "checkpoint1"
                /\ \/ ~BlockedAtCheckpoint /\ pageUrl' = pageUrl
                   \/ /\ BlockedAtCheckpoint
                      /\ ~headless
                      /\ hist'.waited = hist.waited + 1
                      /\ ~isBlocked(pageUrl') ]_vars

C29_Witness ==
    /\ pc = "input"
    /\ hist.escalations = 1
    /\ hist.waited = 1
    /\ ~isBlocked(pageUrl)

\* C30: the session state is never saved from a context the engine has
\* closed: whenever a save invokes context.storageState, the context and its
\* browser are open.
C30_NeverSavesClosedContext == ~hist.savedClosed

\* C34: for each of the five candidate domains D, a page whose URL is the
\* verification page of D (D, "/sorry/index" and a query string) is
\* classified as blocked at every checkpoint.
C34_VerificationPageIsBlocked ==
    (/\ probe.fn = "isBlocked"
     /\ probe.step # "start"
     /\ \E i \in 1..Len(googleDomains) : probe.url = SorryUrl(googleDomains[i]))
        => probe.blocked

\* C33: in every attempt the device descriptor the context options are built
\* from is the one the active fingerprint's deviceName names; a descriptor
\* picked at random from the device list is never the one applied.
C33_DescriptorIsFingerprintDevice ==
    (probe.fn = "contextOptions" /\ probe.step = "built")
        => probe.contextOptions.device =
               ActiveFingerprint(probe.saved, probe.host,
                   WithDefaults(OptionsWithHint(Undefined)).locale).deviceName

\* C32: with a browser supplied by the caller, every context (and its page)
\* the engine opened on that browser during the search is closed by the time
\* the search returns.
C32_ContextsOnCallersBrowserClosed ==
    (Settled /\ existingBrowser /\ outcome = "returned")
        => \A i \in 1..Len(contexts) :
               contexts[i].browser = 0 => ~contexts[i].open

\* the domain in the sidecar of the state file
SidecarDomain ==
    IF fs.files[FingerprintPath] = Absent THEN NoDomain
    ELSE Member(fs.files[FingerprintPath], "googleDomain", NoDomain)
BothDone == probe.fn = "overlap" /\ \A i \in Callers : probe.calls[i].pc = "done"

\* C31 as claimed: when two calls overlap on a state file without pinned
\* domain, the domain in the sidecar after both finished is the domain both
\* navigated to, and a domain once persisted is never replaced by another.
\* (A replaced domain shows at the end: the call that persisted it navigated
\* to it, and the sidecar then holds another.)
C31_PersistedDomainNeverReplaced ==
    BothDone =>
        \A i \in Callers : \A n \in 1..Len(probe.calls[i].navigations) :
            probe.calls[i].navigations[n] = SidecarDomain

\* C31: each of two overlapping calls navigates to one domain, the one it
\* loaded when the sidecar held one at its start and its own random pick
\* otherwise; the sidecar holds the saved state of the call that wrote it
\* last, and a persisted domain is replaced only by the write of a call that
\* had loaded its state before any domain was persisted.
C31_LastWriterWins ==
    /\ [](probe.fn = "overlap" =>
            \A i \in Callers :
               LET c == probe.calls[i]
               IN  /\ Len(c.navigations) <= 1
                   /\ c.pc \in {"saveBlob", "saveSidecar", "done"} =>
                         /\ Len(c.navigations) = 1
                         /\ c.navigations[1] = c.savedState.googleDomain
                         /\ c.loadedDomain # NoDomain =>
                                c.navigations[1] = c.loadedDomain)
    /\ [](probe.fn = "overlap" /\ probe.lastWriter # 0 =>
            SidecarDomain = probe.calls[probe.lastWriter].savedState.googleDomain)
    /\ [][ (SidecarDomain # NoDomain /\ SidecarDomain' # SidecarDomain) =>
             /\ probe'.lastWriter # probe.lastWriter
             /\ probe.calls[probe'.lastWriter].loadedDomain = NoDomain
             /\ SidecarDomain' =
                    probe.calls[probe'.lastWriter].navigations[1] ]_vars

C31_Witness ==
    /\ BothDone
    /\ probe.lastWriter = 2
    /\ probe.calls[1].navigations = << googleDomains[1] >>
    /\ probe.calls[2].navigations = << googleDomains[5] >>
    /\ SidecarDomain = googleDomains[5]

====
